---- MODULE Spec2Model ----
(***************************************************************************)
(* duckdb-http: a Database handle over an HTTP query endpoint.             *)
(* The model covers src/src/index.ts: convertDuckDBValue (the decoder),    *)
(* Connection.fetchNDJSON (one round trip), Database._getQuery (result     *)
(* cache + in-flight registry) and the public operations connect, all,     *)
(* each, exec and run.                                                     *)
(*                                                                         *)
(* JavaScript strings that the code inspects (cell texts, type tags) are   *)
(* sequences of one-character strings; strings the code only carries       *)
(* around (SQL texts, column names, response bodies) are TLA+ strings.     *)
(***************************************************************************)
EXTENDS Integers, Sequences, FiniteSets, TLC

(***************************************************************************)
(* Bounds of the model.                                                    *)
(***************************************************************************)
\* Calls of all/each/exec/run on the handle, the probe of connect included.
MaxCalls == 3
\* Date.now() ranges over 0..MaxTime (milliseconds).
MaxTime == 2
\* The positive cacheTTL a caller may pass to connect.
T == 2

(***************************************************************************)
(* Characters and JavaScript conversions used by convertDuckDBValue.       *)
(***************************************************************************)
DigitChars == <<"0", "1", "2", "3", "4", "5", "6", "7", "8", "9">>

Digits == {DigitChars[i] : i \in 1..10}

UpperChars ==
  <<"A", "B", "C", "D", "E", "F", "G", "H", "I", "J", "K", "L", "M",
    "N", "O", "P", "Q", "R", "S", "T", "U", "V", "W", "X", "Y", "Z">>

LowerChars ==
  <<"a", "b", "c", "d", "e", "f", "g", "h", "i", "j", "k", "l", "m",
    "n", "o", "p", "q", "r", "s", "t", "u", "v", "w", "x", "y", "z">>

\* String.prototype.toLowerCase, character by character.
toLowerCase(s) ==
  [i \in 1..Len(s) |->
     IF \E k \in 1..26 : UpperChars[k] = s[i]
     THEN LowerChars[CHOOSE k \in 1..26 : UpperChars[k] = s[i]]
     ELSE s[i]]

DigitValue(c) == (CHOOSE k \in 1..10 : DigitChars[k] = c) - 1

RECURSIVE NatToChars(_)
NatToChars(n) ==
  IF n < 10 THEN <<DigitChars[n + 1]>>
  ELSE NatToChars(n \div 10) \o <<DigitChars[(n % 10) + 1]>>

\* Number -> string, for the integers of the model.
NumberToString(n) == IF n < 0 THEN <<"-">> \o NatToChars(-n) ELSE NatToChars(n)

RECURSIVE StripZeros(_)
StripZeros(d) == IF Len(d) > 1 /\ d[1] = "0" THEN StripZeros(Tail(d)) ELSE d

(***************************************************************************)
(* Integers beyond the range of the model's arithmetic are decimal digit   *)
(* sequences (most significant digit first, no leading zero).  A JSON      *)
(* number becomes a double: the integer is rounded to 53 significant bits, *)
(* ties to even.                                                           *)
(***************************************************************************)
IsOdd(d) == DigitValue(d[Len(d)]) % 2 = 1

\* d \div 2, by long division: the carry into a position is the parity of the
\* digit before it.
Half(d) ==
  StripZeros([i \in 1..Len(d) |->
                DigitChars[((IF i > 1 /\ IsOdd(<<d[i - 1]>>) THEN 10 ELSE 0)
                            + DigitValue(d[i])) \div 2 + 1]])

\* 2 * d: a position receives a carry when the digit after it is 5 or more.
Twice(d) ==
  LET low == [i \in 1..Len(d) |->
                DigitChars[((2 * DigitValue(d[i])
                             + (IF i < Len(d) /\ DigitValue(d[i + 1]) >= 5 THEN 1 ELSE 0))
                            % 10) + 1]]
  IN IF DigitValue(d[1]) >= 5 THEN <<"1">> \o low ELSE low

RECURSIVE Succ(_)
\* d + 1
Succ(d) ==
  IF d = <<>> THEN <<"1">>
  ELSE IF d[Len(d)] = "9" THEN Succ(SubSeq(d, 1, Len(d) - 1)) \o <<"0">>
       ELSE SubSeq(d, 1, Len(d) - 1) \o <<DigitChars[DigitValue(d[Len(d)]) + 2]>>

\* a < b
Less(a, b) ==
  \/ Len(a) < Len(b)
  \/ /\ Len(a) = Len(b)
     /\ \E i \in 1..Len(a) :
          /\ DigitValue(a[i]) < DigitValue(b[i])
          /\ \A j \in 1..(i - 1) : a[j] = b[j]

\* 2^53: below it every integer is a double.
TwoPow53 == <<"9", "0", "0", "7", "1", "9", "9", "2", "5", "4", "7", "4", "0", "9", "9", "2">>

RECURSIVE ShiftLeft(_, _)
\* d * 2^n
ShiftLeft(d, n) == IF n = 0 THEN d ELSE ShiftLeft(Twice(d), n - 1)

RECURSIVE RoundShift(_, _, _, _)
\* d holds the leading bits of the integer, n bits were shifted out: the first of
\* them is `round`, `sticky` tells whether any later one is set.
RoundShift(d, n, round, sticky) ==
  IF Less(d, TwoPow53)
  THEN ShiftLeft(IF round /\ (sticky \/ IsOdd(d)) THEN Succ(d) ELSE d, n)
  ELSE RoundShift(Half(d), n + 1, IsOdd(d), sticky \/ round)

\* The double nearest to the integer with decimal digits d, as its exact digits.
ToDouble(d) == RoundShift(StripZeros(d), 0, FALSE, FALSE)

(***************************************************************************)
(* Raw cells, as res.json() delivers them: null, boolean, number, string,  *)
(* array, object; a row shorter than meta yields undefined for obj[i].     *)
(***************************************************************************)
Null == [k |-> "null"]

Undefined == [k |-> "undefined"]

Bool(b) == [k |-> "boolean", v |-> b]

\* A number holding the integer n.
Num(n) == [k |-> "number", neg |-> n < 0, digits |-> NatToChars(IF n < 0 THEN -n ELSE n)]

\* The number a JSON number token (optional "-", digits) is parsed to.
JsonNumber(neg, digits) ==
  LET d == ToDouble(digits)
  IN [k |-> "number", neg |-> neg /\ d # <<"0">>, digits |-> d]

Str(s) == [k |-> "string", v |-> s]

Arr(a) == [k |-> "array", v |-> a]

Obj == [k |-> "object"]

\* What a conversion returns or throws.
Return(v) == [ok |-> TRUE, v |-> v, err |-> "none"]

Throw(name) == [ok |-> FALSE, v |-> Null, err |-> name]

RECURSIVE JoinCells(_)
\* String(value): ToString of a raw cell (arrays join their elements by ",").
String(value) ==
  CASE value.k = "string" -> value.v
    [] value.k = "number" ->
         \* for integers below 2^53, which print as their digits
         (IF value.neg THEN <<"-">> ELSE <<>>) \o value.digits
    [] value.k = "boolean" ->
         IF value.v THEN <<"t", "r", "u", "e">> ELSE <<"f", "a", "l", "s", "e">>
    [] value.k = "array" -> JoinCells(value.v)
    [] value.k = "null" -> <<"n", "u", "l", "l">>
    [] value.k = "undefined" -> <<"u", "n", "d", "e", "f", "i", "n", "e", "d">>
    [] OTHER -> <<"[", "o", "b", "j", "e", "c", "t", " ", "O", "b", "j", "e", "c", "t", "]">>

JoinCells(a) ==
  IF a = <<>> THEN <<>>
  ELSE LET h == IF Head(a).k \in {"null", "undefined"} THEN <<>> ELSE String(Head(a))
       IN IF Len(a) = 1 THEN h ELSE h \o <<",">> \o JoinCells(Tail(a))

\* Index of the first non-blank character of s at or after i (Len(s)+1 if none).
RECURSIVE SkipWs(_, _)
SkipWs(s, i) == IF i <= Len(s) /\ s[i] = " " THEN SkipWs(s, i + 1) ELSE i

\* Index after the run of digits of s starting at i.
RECURSIVE SkipDigits(_, _)
SkipDigits(s, i) == IF i <= Len(s) /\ s[i] \in Digits THEN SkipDigits(s, i + 1) ELSE i

RECURSIVE TrimEnd(_)
TrimEnd(s) == IF s # <<>> /\ s[Len(s)] = " " THEN TrimEnd(SubSeq(s, 1, Len(s) - 1)) ELSE s

Trim(s) == TrimEnd(SubSeq(s, SkipWs(s, 1), Len(s)))

\* An arbitrary-precision integer: sign and decimal digits without leading zeros.
BigIntOf(neg, digits) ==
  LET d == StripZeros(digits)
  IN [t |-> "bigint", neg |-> neg /\ d # <<"0">>, digits |-> d]

\* StringToBigInt: blank text is 0n, else an optionally signed decimal literal.
StringToBigInt(s) ==
  LET x == Trim(s)
      signed == x # <<>> /\ x[1] \in {"-", "+"}
      d == IF signed THEN Tail(x) ELSE x
  IN IF x = <<>> THEN Return(BigIntOf(FALSE, <<"0">>))
     ELSE IF d # <<>> /\ SkipDigits(d, 1) = Len(d) + 1
          THEN Return(BigIntOf(signed /\ x[1] = "-", d))
          ELSE Throw("SyntaxError")

\* BigInt(value)
BigInt(value) ==
  CASE value.k = "number" -> Return(BigIntOf(value.neg, value.digits))
    [] value.k = "boolean" -> Return(BigIntOf(FALSE, IF value.v THEN <<"1">> ELSE <<"0">>))
    [] OTHER -> StringToBigInt(String(value))

RECURSIVE CharsToNat(_)
CharsToNat(d) ==
  IF d = <<>> THEN 0 ELSE CharsToNat(SubSeq(d, 1, Len(d) - 1)) * 10 + DigitValue(d[Len(d)])

NaN == [t |-> "number", nan |-> TRUE, v |-> 0]

NumberV(n) == [t |-> "number", nan |-> FALSE, v |-> n]

\* Number(value), for the short decimal texts of the model.
Number(value) ==
  CASE value.k = "number" ->
         NumberV(IF value.neg THEN -CharsToNat(value.digits) ELSE CharsToNat(value.digits))
    [] value.k = "boolean" -> NumberV(IF value.v THEN 1 ELSE 0)
    [] value.k = "object" -> NaN
    [] OTHER ->
         LET x == Trim(String(value))
             signed == x # <<>> /\ x[1] \in {"-", "+"}
             d == IF signed THEN Tail(x) ELSE x
         IN IF x = <<>> THEN NumberV(0)
            ELSE IF d # <<>> /\ SkipDigits(d, 1) = Len(d) + 1
                 THEN NumberV(IF x[1] = "-" THEN -CharsToNat(d) ELSE CharsToNat(d))
                 ELSE NaN

\* Boolean(value)
Boolean(value) ==
  CASE value.k = "boolean" -> value.v
    [] value.k = "number" -> value.digits # <<"0">>
    [] value.k = "string" -> value.v # <<>>
    [] OTHER -> TRUE

(***************************************************************************)
(* JSON.parse, for texts over digits, "[", "]", ",", "-", blanks, the      *)
(* literal names and characters that occur in no JSON text outside a       *)
(* string (the model's texts hold no quote, brace, point or exponent).     *)
(***************************************************************************)
ParseFail == [ok |-> FALSE, next |-> 0, v |-> Null]

\* The text s holds the word w at index i.
HasWord(s, i, w) == i + Len(w) - 1 <= Len(s) /\ SubSeq(s, i, i + Len(w) - 1) = w

WordTrue == <<"t", "r", "u", "e">>

WordFalse == <<"f", "a", "l", "s", "e">>

WordNull == <<"n", "u", "l", "l">>

\* true, false or null at index i.
ParseLiteralName(s, i) ==
  IF HasWord(s, i, WordTrue) THEN [ok |-> TRUE, next |-> i + Len(WordTrue), v |-> Bool(TRUE)]
  ELSE IF HasWord(s, i, WordFalse)
       THEN [ok |-> TRUE, next |-> i + Len(WordFalse), v |-> Bool(FALSE)]
       ELSE IF HasWord(s, i, WordNull)
            THEN [ok |-> TRUE, next |-> i + Len(WordNull), v |-> Null]
            ELSE ParseFail

ParseNumber(s, i) ==
  LET neg == s[i] = "-"
      b == IF neg THEN i + 1 ELSE i
      e == SkipDigits(s, b)
      d == SubSeq(s, b, e - 1)
  IN IF d = <<>> \/ (Len(d) > 1 /\ d[1] = "0") THEN ParseFail
     ELSE [ok |-> TRUE, next |-> e, v |-> JsonNumber(neg, d)]

RECURSIVE ParseValue(_, _)
RECURSIVE ParseElements(_, _, _)
ParseValue(s, i) ==
  LET j == SkipWs(s, i)
  IN IF j > Len(s) THEN ParseFail
     ELSE IF s[j] = "["
          THEN LET n == SkipWs(s, j + 1)
               IN IF n <= Len(s) /\ s[n] = "]"
                  THEN [ok |-> TRUE, next |-> n + 1, v |-> Arr(<<>>)]
                  ELSE ParseElements(s, j + 1, <<>>)
          ELSE IF s[j] \in Digits \cup {"-"} THEN ParseNumber(s, j)
               ELSE ParseLiteralName(s, j)

ParseElements(s, i, acc) ==
  LET r == ParseValue(s, i)
      n == SkipWs(s, r.next)
  IN IF ~r.ok \/ n > Len(s) THEN ParseFail
     ELSE IF s[n] = "," THEN ParseElements(s, n + 1, Append(acc, r.v))
          ELSE IF s[n] = "]" THEN [ok |-> TRUE, next |-> n + 1, v |-> Arr(Append(acc, r.v))]
               ELSE ParseFail

JSONparse(text) ==
  LET r == ParseValue(text, 1)
  IN IF r.ok /\ SkipWs(text, r.next) > Len(text) THEN Return(r.v) ELSE Throw("SyntaxError")

\* value.replace(' ', 'T'): the first blank only.
ReplaceFirstBlank(s) ==
  IF \E i \in 1..Len(s) : s[i] = " "
  THEN LET p == CHOOSE i \in 1..Len(s) : s[i] = " " /\ \A j \in 1..(i - 1) : s[j] # " "
       IN [i \in 1..Len(s) |-> IF i = p THEN "T" ELSE s[i]]
  ELSE s

\* new Date(text): the text handed to the Date constructor (which never throws).
DateOf(text) == [t |-> "Date", text |-> text]

\* Buffer.from(text, 'base64') and Buffer.from(array).
BufferOf(enc, src) == [t |-> "Buffer", enc |-> enc, src |-> src]

ZuluMidnight == <<"T", "0", "0", ":", "0", "0", ":", "0", "0", "Z">>

TagBoolean == <<"b", "o", "o", "l", "e", "a", "n">>
TagTinyint == <<"t", "i", "n", "y", "i", "n", "t">>
TagSmallint == <<"s", "m", "a", "l", "l", "i", "n", "t">>
TagInteger == <<"i", "n", "t", "e", "g", "e", "r">>
TagInt32 == <<"i", "n", "t", "3", "2">>
TagFloat == <<"f", "l", "o", "a", "t">>
TagDouble == <<"d", "o", "u", "b", "l", "e">>
TagDecimal == <<"d", "e", "c", "i", "m", "a", "l">>
TagBigint == <<"b", "i", "g", "i", "n", "t">>
TagInt64 == <<"i", "n", "t", "6", "4">>
TagHugeint == <<"h", "u", "g", "e", "i", "n", "t">>
TagVarchar == <<"v", "a", "r", "c", "h", "a", "r">>
TagString == <<"s", "t", "r", "i", "n", "g">>
TagText == <<"t", "e", "x", "t">>
TagUuid == <<"u", "u", "i", "d">>
TagDate == <<"d", "a", "t", "e">>
TagTime == <<"t", "i", "m", "e">>
TagTimestamp == <<"t", "i", "m", "e", "s", "t", "a", "m", "p">>
TagDatetime == <<"d", "a", "t", "e", "t", "i", "m", "e">>
TagTimestamptz == <<"t", "i", "m", "e", "s", "t", "a", "m", "p", "t", "z">>
TagBlob == <<"b", "l", "o", "b">>
TagList == <<"l", "i", "s", "t">>
TagArray == <<"a", "r", "r", "a", "y">>
TagStruct == <<"s", "t", "r", "u", "c", "t">>
TagJson == <<"j", "s", "o", "n">>

\* Mutant: only null is caught before the dispatch; an absent cell is dispatched.
isNullish_OnlyNull(value) == value.k = "null"

\* line 28: value === null || value === undefined
isNullish(value) == value.k \in {"null", "undefined"}

(***************************************************************************)
(* convertDuckDBValue(value, type): Return(typed value) or Throw(error).   *)
(***************************************************************************)
convertDuckDBValue(value, type) ==
  IF isNullish(value) THEN Return(Null)
  ELSE LET t == toLowerCase(type) IN
    CASE t = TagBoolean -> Return([t |-> "boolean", v |-> Boolean(value)])
      [] t \in {TagTinyint, TagSmallint, TagInteger, TagInt32, TagFloat, TagDouble,
                TagDecimal} -> Return(Number(value))
      [] t \in {TagBigint, TagInt64, TagHugeint} -> BigInt(value)
      [] t \in {TagVarchar, TagString, TagText, TagUuid} ->
           Return([t |-> "string", v |-> String(value)])
      [] t = TagDate -> Return(DateOf(String(value) \o ZuluMidnight))
      [] t = TagTime -> Return([t |-> "string", v |-> String(value)])
      [] t \in {TagTimestamp, TagDatetime} ->
           IF value.k = "string"
           THEN Return(DateOf(ReplaceFirstBlank(value.v) \o <<"Z">>))
           ELSE Throw("TypeError")
      [] t = TagTimestamptz -> Return(DateOf(String(value)))
      [] t = TagBlob ->
           IF value.k = "string" THEN Return(BufferOf("base64", value.v))
           ELSE IF value.k = "array" THEN Return(BufferOf("bytes", value.v))
                ELSE Throw("TypeError")
      [] t \in {TagList, TagArray} ->
           IF value.k = "array" THEN Return(value) ELSE JSONparse(String(value))
      [] t \in {TagStruct, TagJson} ->
           IF value.k \in {"array", "object"} THEN Return(value)
           ELSE JSONparse(String(value))
      [] OTHER -> Return(value)

(***************************************************************************)
(* Wire results (QueryResult) the endpoint may answer with, and responses. *)
(***************************************************************************)
Meta == <<[name |-> "id", type |-> <<"B", "I", "G", "I", "N", "T">>],
          [name |-> "tags", type |-> <<"l", "i", "s", "t">>]>>

\* Two rows; the second row is one cell short (obj[i] is undefined).
WireA == [meta |-> Meta,
          data |-> << <<Str(<<"4", "2">>), Str(<<"[", "1", ",", "2", "]">>)>>,
                      <<Num(7)>> >>]

\* One good row, then a row whose list cell holds malformed JSON text.
WireMalformed == [meta |-> Meta,
                  data |-> << <<Str(<<"1">>), Str(<<"[", "]">>)>>,
                              <<Str(<<"4", "2">>), Str(<<"[", "1", ",">>)>> >>]

NoWire == [meta |-> <<>>, data |-> <<>>]

JsonBody(w) == [text |-> "json", valid |-> TRUE, json |-> w]

TextBody(txt) == [text |-> txt, valid |-> FALSE, json |-> NoWire]

HttpResponse(status, body) == [net |-> FALSE, status |-> status, body |-> body]

\* fetch() itself rejects: no HTTP response at all.
NetworkFailure == [net |-> TRUE, status |-> 0, body |-> TextBody("")]

Responses ==
  {NetworkFailure,
   HttpResponse(500, TextBody("syntax error")),
   HttpResponse(200, JsonBody(WireA)),
   HttpResponse(200, JsonBody(WireMalformed))}

\* Response.ok
ResOk(res) == res.status >= 200 /\ res.status <= 299

NoError == [name |-> "none", message |-> <<>>]

Error(name, message) == [name |-> name, message |-> message]

Resolve(v) == [ok |-> TRUE, v |-> v, err |-> NoError]

Reject(e) == [ok |-> FALSE, v |-> <<>>, err |-> e]

\* Mutant: the error names the status only and drops the response body.
fetchNDJSONResult_NoBody(res) ==
  IF res.net THEN Reject(Error("TypeError", <<"fetch failed">>))
  ELSE IF ~ResOk(res)
       THEN Reject(Error("Error", <<"DuckDB HTTP error ">> \o NumberToString(res.status)))
       ELSE IF res.body.valid THEN Resolve(res.body.json)
            ELSE Reject(Error("SyntaxError", <<"Unexpected token in JSON">>))

(***************************************************************************)
(* Connection.fetchNDJSON: what the awaited call yields for a response.    *)
(***************************************************************************)
fetchNDJSONResult(res) ==
  IF res.net THEN Reject(Error("TypeError", <<"fetch failed">>))
  ELSE IF ~ResOk(res)
       THEN Reject(Error("Error",
                         <<"DuckDB HTTP error ">> \o NumberToString(res.status)
                           \o <<": ", res.body.text>>))
       ELSE IF res.body.valid THEN Resolve(res.body.json)
            ELSE Reject(Error("SyntaxError", <<"Unexpected token in JSON">>))

(***************************************************************************)
(* objects.map(obj => Object.fromEntries(schema.map(...)))                 *)
(***************************************************************************)
Cell(obj, i) == IF i <= Len(obj) THEN obj[i] ELSE Undefined

\* Object.fromEntries: a later column of the same name overwrites an earlier one.
RowOf(obj, schema) ==
  [n \in {schema[i].name : i \in 1..Len(schema)} |->
     LET i == CHOOSE j \in 1..Len(schema) :
                /\ schema[j].name = n
                /\ \A l \in (j + 1)..Len(schema) : schema[l].name # n
     IN convertDuckDBValue(Cell(obj, i), schema[i].type).v]

\* The cells whose conversion throws, as <<row, column>>.
Throwing(result) ==
  {rc \in (1..Len(result.data)) \X (1..Len(result.meta)) :
     ~convertDuckDBValue(Cell(result.data[rc[1]], rc[2]), result.meta[rc[2]].type).ok}

\* The first throwing cell, in row-major order of evaluation.
FirstThrowing(result) ==
  CHOOSE rc \in Throwing(result) :
    \A o \in Throwing(result) : rc[1] < o[1] \/ (rc[1] = o[1] /\ rc[2] <= o[2])

mapRows(result) ==
  IF Throwing(result) # {}
  THEN LET rc == FirstThrowing(result)
       IN Reject(Error(convertDuckDBValue(Cell(result.data[rc[1]], rc[2]),
                                          result.meta[rc[2]].type).err,
                       <<"convertDuckDBValue">>))
  ELSE Resolve([r \in 1..Len(result.data) |-> RowOf(result.data[r], result.meta)])

\* lines 139-150: the try block of a computation, from the response of its
\* request to the rows it returns or the error it throws.
Computation ==
  [res \in Responses |->
     LET fetched == fetchNDJSONResult(res)
     IN IF fetched.ok THEN mapRows(fetched.v) ELSE fetched]

(***************************************************************************)
(* State of one Database handle and of its callers.                        *)
(***************************************************************************)
VARIABLES
  conn,         \* connect(): "none", "connecting", "returned" or "failed"
  connectError, \* the error connect() failed with
  cacheTTL,     \* Database.cacheTTL
  now,          \* Date.now()
  resultCache,  \* Database.resultCache: sql -> [ts, data]
  inFlight,     \* Database.inFlight: sql -> promise (index into promises)
  promises,     \* the promises _getQuery created, one per new computation
  requests,     \* every fetch() issued, with the response it received
  calls,        \* every call of all/each/exec/run, with its settlement
  decoding      \* one cell of a response body on its way through res.json() and
                \* convertDuckDBValue (used by DecodeSpec only)

vars == <<conn, connectError, cacheTTL, now, resultCache, inFlight, promises, requests,
          calls, decoding>>

SqlTexts == {"SELECT 1", "select 1"}

Ops == {"all", "each", "exec", "run"}

\* ConnectionOptions: cacheTTL absent, 0 or T.
Options ==
  {[baseUrl |-> "http://localhost:8888"],
   [baseUrl |-> "http://localhost:8888", cacheTTL |-> 0],
   [baseUrl |-> "http://localhost:8888", cacheTTL |-> T]}

\* The number of fetch() calls issued for a SQL text.
RoundTrips(sql) == Cardinality({r \in 1..Len(requests) : requests[r].sql = sql})

CallsFor(sql) == {i \in 1..Len(calls) : calls[i].sql = sql}

\* No cell is under study.
NoCell == [stage |-> "none", type |-> <<>>, cell |-> Null, value |-> Null, out |-> Return(Null)]

Init ==
  /\ conn = "none"
  /\ connectError = NoError
  /\ cacheTTL = 0
  /\ now = 0
  /\ resultCache = <<>>
  /\ inFlight = <<>>
  /\ promises = <<>>
  /\ requests = <<>>
  /\ calls = <<>>
  /\ decoding = NoCell

\* Map.set and Map.delete
MapSet(m, key, v) == (key :> v) @@ m

MapDelete(m, key) == [x \in (DOMAIN m) \ {key} |-> m[x]]

\* Mutant: an entry aged exactly cacheTTL is still served (<= for <).
cacheValid_Inclusive(sql, at) ==
  /\ sql \in DOMAIN resultCache
  /\ cacheTTL > 0
  /\ at - resultCache[sql].ts <= cacheTTL

\* Mutant: the age of the entry is not looked at.
cacheValid_AnyAge(sql, at) ==
  /\ sql \in DOMAIN resultCache
  /\ cacheTTL > 0

\* line 129: cached && this.cacheTTL > 0 && now - cached.ts < this.cacheTTL
cacheValid(sql, at) ==
  /\ sql \in DOMAIN resultCache
  /\ cacheTTL > 0
  /\ at - resultCache[sql].ts < cacheTTL

\* Mutant: the registry is not consulted.
hasInFlight_Never(sql) == FALSE

\* line 134: this.inFlight.has(sql)
hasInFlight(sql) == sql \in DOMAIN inFlight

\* Mutant: the result is not stored.
storeCache_Never(sql, ts, rows) == resultCache

\* Mutant: the result is stored whatever cacheTTL is.
storeCache_Always(sql, ts, rows) == MapSet(resultCache, sql, [ts |-> ts, data |-> rows])

\* Mutant: the entry carries the time at which it is stored.
storeCache_AtStoreTime(sql, ts, rows) ==
  IF cacheTTL > 0 THEN MapSet(resultCache, sql, [ts |-> now, data |-> rows])
  ELSE resultCache

\* lines 153-155: store cache if TTL enabled; ts is the `now` of line 125.
storeCache(sql, ts, rows) ==
  IF cacheTTL > 0 THEN MapSet(resultCache, sql, [ts |-> ts, data |-> rows])
  ELSE resultCache

\* Mutant: the entry is left in the registry.
cleanup_Forgotten(sql) == inFlight

\* line 160: cleanup in-flight map
cleanup(sql) == MapDelete(inFlight, sql)

\* fetch(url, ...): one request on the wire, awaiting its response.
fetchNDJSON(sql, p) ==
  Append(requests, [sql |-> sql, promise |-> p, state |-> "sent", res |-> NetworkFailure])

NewCall(op, sql, kind, p, data) ==
  [op |-> op, sql |-> sql, at |-> now, kind |-> kind, promise |-> p, data |-> data,
   state |-> "pending", rows |-> <<>>, err |-> NoError, cbs |-> <<>>,
   \* history: the round trips for sql before the call, and (once the caller has
   \* resumed) the number of calls issued by then
   rtBefore |-> RoundTrips(sql), resumedAfter |-> 0]

\* Mutant: the cache and the registry are keyed by the text in upper case.
_getQuery_KeyUpperCase(op, sql) ==
  LET key == IF sql = "select 1" THEN "SELECT 1" ELSE sql
  IN IF cacheValid(key, now)
     THEN /\ calls' = Append(calls, NewCall(op, sql, "hit", 0, resultCache[key].data))
          /\ UNCHANGED <<resultCache, inFlight, promises, requests>>
     ELSE IF hasInFlight(key)
          THEN /\ calls' = Append(calls, NewCall(op, sql, "join", inFlight[key], <<>>))
               /\ UNCHANGED <<resultCache, inFlight, promises, requests>>
          ELSE LET p == Len(promises) + 1
               IN /\ promises' = Append(promises,
                                        [sql |-> key, now |-> now, state |-> "pending",
                                         rows |-> <<>>, err |-> NoError, settledAfter |-> 0])
                  /\ requests' = fetchNDJSON(sql, p)
                  /\ inFlight' = MapSet(inFlight, key, p)
                  /\ calls' = Append(calls, NewCall(op, sql, "new", p, <<>>))
                  /\ UNCHANGED resultCache

\* Mutant: a call that finds a stale entry removes it from the cache.
_getQuery_EvictsStale(op, sql) ==
  IF cacheValid(sql, now)
  THEN /\ calls' = Append(calls, NewCall(op, sql, "hit", 0, resultCache[sql].data))
       /\ UNCHANGED <<resultCache, inFlight, promises, requests>>
  ELSE /\ resultCache' = MapDelete(resultCache, sql)
       /\ IF hasInFlight(sql)
          THEN /\ calls' = Append(calls, NewCall(op, sql, "join", inFlight[sql], <<>>))
               /\ UNCHANGED <<inFlight, promises, requests>>
          ELSE LET p == Len(promises) + 1
               IN /\ promises' = Append(promises,
                                        [sql |-> sql, now |-> now, state |-> "pending",
                                         rows |-> <<>>, err |-> NoError, settledAfter |-> 0])
                  /\ requests' = fetchNDJSON(sql, p)
                  /\ inFlight' = MapSet(inFlight, sql, p)
                  /\ calls' = Append(calls, NewCall(op, sql, "new", p, <<>>))

\* Mutant: exec(sql) is not served from the result cache.
_getQuery_ExecUncached(op, sql) ==
  IF op # "exec" /\ cacheValid(sql, now)
  THEN /\ calls' = Append(calls, NewCall(op, sql, "hit", 0, resultCache[sql].data))
       /\ UNCHANGED <<resultCache, inFlight, promises, requests>>
  ELSE IF hasInFlight(sql)
       THEN /\ calls' = Append(calls, NewCall(op, sql, "join", inFlight[sql], <<>>))
            /\ UNCHANGED <<resultCache, inFlight, promises, requests>>
       ELSE LET p == Len(promises) + 1
            IN /\ promises' = Append(promises,
                                     [sql |-> sql, now |-> now, state |-> "pending",
                                      rows |-> <<>>, err |-> NoError, settledAfter |-> 0])
               /\ requests' = fetchNDJSON(sql, p)
               /\ inFlight' = MapSet(inFlight, sql, p)
               /\ calls' = Append(calls, NewCall(op, sql, "new", p, <<>>))
               /\ UNCHANGED resultCache

(***************************************************************************)
(* Database._getQuery(sql), up to its first suspension: serve from cache,  *)
(* join the promise in flight, or start a new computation (which runs to   *)
(* the await of fetch) and register its promise.                           *)
(***************************************************************************)
_getQuery(op, sql) ==
  IF cacheValid(sql, now)
  THEN /\ calls' = Append(calls, NewCall(op, sql, "hit", 0, resultCache[sql].data))
       /\ UNCHANGED <<resultCache, inFlight, promises, requests>>
  ELSE IF hasInFlight(sql)
       THEN /\ calls' = Append(calls, NewCall(op, sql, "join", inFlight[sql], <<>>))
            /\ UNCHANGED <<resultCache, inFlight, promises, requests>>
       ELSE LET p == Len(promises) + 1
            IN /\ promises' = Append(promises,
                                     [sql |-> sql, now |-> now, state |-> "pending",
                                      rows |-> <<>>, err |-> NoError, settledAfter |-> 0])
               /\ requests' = fetchNDJSON(sql, p)
               /\ inFlight' = MapSet(inFlight, sql, p)
               /\ calls' = Append(calls, NewCall(op, sql, "new", p, <<>>))
               /\ UNCHANGED resultCache

\* line 129 served call i, or the promise it awaits has settled.
CanResume(i) ==
  IF calls[i].kind = "hit" THEN TRUE
  ELSE promises[calls[i].promise].state # "pending"

(***************************************************************************)
(* Run-to-completion scheduling of async functions.  A continuation after  *)
(* an await is a microtask; a response is delivered by a task, and a task  *)
(* starts only when no microtask is queued.  Caller code (which issues the *)
(* calls) runs in a task of its own or in the continuation of a call, so   *)
(* once a promise has settled it runs only after a caller of that promise  *)
(* has resumed.                                                            *)
(***************************************************************************)
MicrotaskQueued == \E i \in 1..Len(calls) : calls[i].state = "pending" /\ CanResume(i)

CallerCodeMayRun ==
  \A p \in 1..Len(promises) :
    promises[p].state # "pending" =>
      \E i \in 1..Len(calls) : calls[i].promise = p /\ calls[i].state # "pending"

\* Database.connect(options): construct the handle and issue the probe.
Connect(options) ==
  /\ conn = "none"
  /\ conn' = "connecting"
  /\ cacheTTL' = IF "cacheTTL" \in DOMAIN options THEN options.cacheTTL ELSE 0
  /\ _getQuery("all", "SELECT 1")
  /\ UNCHANGED <<connectError, now, decoding>>

\* all(sql), each(sql, cb), exec(sql), run(sql) on the returned handle.
Query(op, sql) ==
  /\ conn = "returned"
  /\ Len(calls) < MaxCalls
  /\ CallerCodeMayRun
  /\ _getQuery(op, sql)
  /\ UNCHANGED <<conn, connectError, cacheTTL, now, decoding>>

(***************************************************************************)
(* The response of a request arrives: fetchNDJSON resumes, the rows are    *)
(* mapped, the cache is stored, the finally block runs, the promise        *)
(* settles.                                                                *)
(***************************************************************************)
Respond(p, res) ==
  /\ p \in 1..Len(promises)
  /\ promises[p].state = "pending"
  /\ ~MicrotaskQueued
  /\ \E r \in 1..Len(requests) :
       /\ requests[r].promise = p
       /\ requests[r].state = "sent"
       /\ requests' = [requests EXCEPT ![r] = [@ EXCEPT !.state = "done", !.res = res]]
  /\ LET sql == promises[p].sql
         outcome == Computation[res]
     IN /\ resultCache' = IF outcome.ok THEN storeCache(sql, promises[p].now, outcome.v)
                          ELSE resultCache
        /\ inFlight' = cleanup(sql)
        /\ promises' = [promises EXCEPT ![p] =
                          [@ EXCEPT !.state = IF outcome.ok THEN "fulfilled" ELSE "rejected",
                                    !.rows = outcome.v,
                                    !.err = outcome.err,
                                    !.settledAfter = Len(calls)]]
  /\ UNCHANGED <<conn, connectError, cacheTTL, now, calls, decoding>>

\* Mutant: the loop starts at the second row.
forEachRow_SkipFirst(rows) == [k \in 1..(Len(rows) - 1) |-> rows[k + 1]]

\* Mutant: the handle is returned whatever the probe's outcome.
connectOutcome_Always(got) == "returned"

\* line 174: for (const row of rows) cb(row) -- the rows cb is invoked with.
forEachRow(rows) == [k \in 1..Len(rows) |-> rows[k]]

\* lines 120-121: await db.all('SELECT 1'); return db
connectOutcome(got) == IF got.ok THEN "returned" ELSE "failed"

\* Mutant: a joiner of a rejected promise gets an empty table instead of the error.
Settled_JoinerSwallows(i) ==
  IF calls[i].kind = "hit" THEN Resolve(calls[i].data)
  ELSE IF promises[calls[i].promise].state = "fulfilled"
       THEN Resolve(promises[calls[i].promise].rows)
       ELSE IF calls[i].kind = "join" THEN Resolve(<<>>)
            ELSE Reject(promises[calls[i].promise].err)

\* What the awaited _getQuery(sql) of call i yields once it can resume.
Settled(i) ==
  IF calls[i].kind = "hit" THEN Resolve(calls[i].data)
  ELSE IF promises[calls[i].promise].state = "fulfilled"
       THEN Resolve(promises[calls[i].promise].rows)
       ELSE Reject(promises[calls[i].promise].err)

(***************************************************************************)
(* The caller of call i resumes after its await: each runs cb over the     *)
(* rows; connect returns the handle or fails with the probe's error.       *)
(***************************************************************************)
Resume(i) ==
  /\ i \in 1..Len(calls)
  /\ calls[i].state = "pending"
  /\ CanResume(i)
  /\ LET got == Settled(i)
     IN /\ calls' = [calls EXCEPT ![i] =
                       [@ EXCEPT !.state = IF got.ok THEN "fulfilled" ELSE "rejected",
                                 !.rows = got.v,
                                 !.err = got.err,
                                 !.cbs = IF got.ok /\ calls[i].op = "each"
                                         THEN forEachRow(got.v) ELSE <<>>,
                                 !.resumedAfter = Len(calls)]]
        /\ IF conn = "connecting"
           THEN /\ conn' = connectOutcome(got)
                /\ connectError' = got.err
           ELSE UNCHANGED <<conn, connectError>>
  /\ UNCHANGED <<cacheTTL, now, resultCache, inFlight, promises, requests, decoding>>

\* Time passes: Date.now() is taken to be a non-decreasing clock.
Tick ==
  /\ now < MaxTime
  /\ now' = now + 1
  /\ UNCHANGED <<conn, connectError, cacheTTL, resultCache, inFlight, promises, requests,
                 calls, decoding>>

Next ==
  \/ \E options \in Options : Connect(options)
  \/ \E op \in Ops, sql \in SqlTexts : Query(op, sql)
  \/ \E p \in 1..Len(promises), res \in Responses : Respond(p, res)
  \/ \E i \in 1..Len(calls) : Resume(i)
  \/ Tick

Spec == Init /\ [][Next]_vars

\* Every request is answered, and the event loop runs every queued continuation.
FairSpec ==
  /\ Spec
  /\ WF_vars(\E p \in 1..Len(promises), res \in Responses : Respond(p, res))
  /\ WF_vars(\E i \in 1..Len(calls) : Resume(i))

(***************************************************************************)
(* The decoder on its own: one cell of a response body, with the type its  *)
(* column declares, goes through res.json() and convertDuckDBValue.        *)
(***************************************************************************)
\* A JSON number as written in the response body: optional "-" and digits.
Literal(neg, digits) == [k |-> "literal", neg |-> neg, digits |-> digits]

\* line 103, res.json(): a number token becomes a double; every other cell is
\* delivered as the body holds it.
resJson(cell) == IF cell.k = "literal" THEN JsonNumber(cell.neg, cell.digits) ELSE cell

KnownTags ==
  {TagBoolean, TagTinyint, TagSmallint, TagInteger, TagInt32, TagFloat, TagDouble,
   TagDecimal, TagBigint, TagInt64, TagHugeint, TagVarchar, TagString, TagText, TagUuid,
   TagDate, TagTime, TagTimestamp, TagDatetime, TagTimestamptz, TagBlob, TagList,
   TagArray, TagStruct, TagJson}

BigintTags == {TagBigint, TagInt64, TagHugeint}

JsonTags == {TagList, TagArray, TagStruct, TagJson}

UpperCased(s) ==
  [i \in 1..Len(s) |->
     IF \E k \in 1..26 : LowerChars[k] = s[i]
     THEN UpperChars[CHOOSE k \in 1..26 : LowerChars[k] = s[i]]
     ELSE s[i]]

\* First letter in upper case, the rest as given.
Capitalized(s) == <<UpperCased(s)[1]>> \o Tail(s)

AnyCase(tags) == tags \cup {UpperCased(t) : t \in tags} \cup {Capitalized(t) : t \in tags}

\* Tags that convertDuckDBValue does not know.
UnknownTags == {<<"g", "e", "o", "m", "e", "t", "r", "y">>, <<"I", "N", "T", "E", "R", "V", "A", "L">>,
                <<"i", "n", "t">>, <<>>}

DeclaredTypes == AnyCase(KnownTags) \cup UnknownTags

Text19 == <<"2", "0", "2", "4", "-", "0", "1", "-", "0", "2", " ", "0", "3", ":", "0", "4", ":", "0", "5">>

\* 2^63 - 1, the largest BIGINT
MaxInt64 == <<"9", "2", "2", "3", "3", "7", "2", "0", "3", "6", "8", "5", "4", "7", "7", "5", "8", "0", "7">>

\* 2^53 + 1, the least positive integer that is no double
TwoPow53Plus1 == <<"9", "0", "0", "7", "1", "9", "9", "2", "5", "4", "7", "4", "0", "9", "9", "3">>

\* Cells of a response body; Undefined is the cell of a row shorter than meta.
WireCells ==
  {Undefined, Null, Bool(TRUE), Bool(FALSE),
   Literal(FALSE, <<"0">>), Literal(FALSE, <<"7">>), Literal(TRUE, <<"3">>),
   Str(<<>>), Str(<<"4", "2">>), Str(<<" ", "4", "2", " ">>), Str(<<"-", "7">>),
   Str(<<"a", "b", "c">>), Str(<<"t", "r", "u", "e">>),
   Str(<<"[", "1", ",", "2", "]">>), Str(<<"[", "1", ",">>), Str(Text19),
   Arr(<<Num(1), Num(2)>>), Arr(<<>>), Obj}

\* Integers beyond the model's arithmetic, as text and as number tokens.
BigIntegerCells ==
  {Str(MaxInt64), Str(<<"-">> \o MaxInt64), Literal(FALSE, MaxInt64), Literal(TRUE, MaxInt64),
   Literal(FALSE, TwoPow53), Literal(FALSE, TwoPow53Plus1)}

\* The cells studied: every cell under every declared type, and the big integers
\* under the tags that build a BigInt (no other conversion of the model reads them).
DecodeInputs ==
  (WireCells \X DeclaredTypes) \cup (BigIntegerCells \X AnyCase(BigintTags))

DecodeInit ==
  /\ conn = "none"
  /\ connectError = NoError
  /\ cacheTTL = 0
  /\ now = 0
  /\ resultCache = <<>>
  /\ inFlight = <<>>
  /\ promises = <<>>
  /\ requests = <<>>
  /\ calls = <<>>
  /\ \E in \in DecodeInputs :
       decoding = [stage |-> "wire", type |-> in[2], cell |-> in[1], value |-> Null,
                   out |-> Return(Null)]

\* line 103: the body is parsed; obj[i] is the raw value of the cell.
ParseCell ==
  /\ decoding.stage = "wire"
  /\ decoding' = [decoding EXCEPT !.stage = "raw", !.value = resJson(decoding.cell)]
  /\ UNCHANGED <<conn, connectError, cacheTTL, now, resultCache, inFlight, promises,
                 requests, calls>>

\* line 147: convertDuckDBValue(obj[i], col.type)
ConvertCell ==
  /\ decoding.stage = "raw"
  /\ decoding' = [decoding EXCEPT !.stage = "typed",
                                  !.out = convertDuckDBValue(decoding.value, decoding.type)]
  /\ UNCHANGED <<conn, connectError, cacheTTL, now, resultCache, inFlight, promises,
                 requests, calls>>

DecodeNext == ParseCell \/ ConvertCell

DecodeSpec == DecodeInit /\ [][DecodeNext]_vars

(***************************************************************************)
(* Vocabulary of the properties.                                           *)
(***************************************************************************)
Pending(i) == calls[i].state = "pending"

\* Call j was issued before the caller of call i resumed.
IssuedBeforeResumed(j, i) == Pending(i) \/ j <= calls[i].resumedAfter

\* Call j was issued before promise p settled.
IssuedBeforeSettled(j, p) == promises[p].state = "pending" \/ j <= promises[p].settledAfter

\* The fetch() calls issued by the computations that the calls of G started.
RoundTripsBy(G) ==
  Cardinality({r \in 1..Len(requests) :
                 \E j \in G : calls[j].kind = "new" /\ requests[r].promise = calls[j].promise})

\* The first two calls for a SQL text on the handle.
FirstTwo(i, j) ==
  /\ i \in 1..Len(calls) /\ j \in 1..Len(calls) /\ i < j
  /\ calls[i].sql = calls[j].sql
  /\ \A k \in CallsFor(calls[i].sql) : k >= i /\ (k = i \/ k >= j)

\* Every earlier call for the same text had settled when call j was issued.
Sequential(j) ==
  \A i \in CallsFor(calls[j].sql) : i < j => (~Pending(i) /\ calls[i].resumedAfter < j)

\* The call that started promise p.
StartedBy(p) == CHOOSE k \in 1..Len(calls) : calls[k].kind = "new" /\ calls[k].promise = p

\* Request r was on the wire at some time between the issue of call i and its
\* settlement.
OnTheWireDuring(r, i) ==
  LET p == requests[r].promise
  IN /\ IssuedBeforeResumed(StartedBy(p), i)
     /\ (promises[p].state = "pending" \/ promises[p].settledAfter >= i)

(***************************************************************************)
(* C1 (as stated): whenever a SQL text is called N >= 1 times before the   *)
(* first of those calls settles, the transport receives exactly 1 round    *)
(* trip for the text (from the issue of the first call to its settlement). *)
(* It fails when the first call is served from a fresh cache entry: then   *)
(* the transport receives no round trip at all.                            *)
(***************************************************************************)
C1_ExactlyOneRoundTrip ==
  \A i \in 1..Len(calls) :
    Cardinality({r \in 1..Len(requests) :
                   requests[r].sql = calls[i].sql /\ OnTheWireDuring(r, i)}) = 1

(***************************************************************************)
(* C1 (amended): a call that is not served from a fresh cache entry and    *)
(* finds no promise in flight starts exactly 1 round trip, and no call for *)
(* the same text issued before that computation settles starts another     *)
(* (a call that joins, joins that promise): N such calls cause exactly 1   *)
(* round trip.  A call served from the cache causes none.                  *)
(***************************************************************************)
C1_SingleFlight ==
  \A i \in 1..Len(calls) :
    /\ calls[i].kind = "new" =>
         LET p == calls[i].promise
             group == {j \in CallsFor(calls[i].sql) : j >= i /\ IssuedBeforeSettled(j, p)}
         IN /\ RoundTripsBy(group) = 1
            /\ \A j \in group \ {i} :
                 /\ calls[j].kind # "new"
                 /\ calls[j].kind = "join" => calls[j].promise = p
    /\ calls[i].kind = "hit" => RoundTripsBy({i}) = 0

\* Two calls for one text while the first is in flight, and the computation settled.
C1_Witness ==
  \E i, j \in 1..Len(calls) :
    /\ i < j
    /\ calls[i].kind = "new" /\ calls[j].kind = "join"
    /\ calls[j].promise = calls[i].promise
    /\ promises[calls[i].promise].state # "pending"
    /\ RoundTrips(calls[i].sql) = 1

(***************************************************************************)
(* C3 (as stated): with cacheTTL = T > 0, the first two calls for a text,  *)
(* issued less than T apart, cause exactly 1 round trip in total.  It      *)
(* fails when the first call's computation has failed before the second    *)
(* call is issued: failures are not cached, so the second call fetches.    *)
(***************************************************************************)
C3_WithinTTLOneRoundTrip ==
  cacheTTL > 0 =>
    \A i, j \in 1..Len(calls) :
      (FirstTwo(i, j) /\ calls[j].at - calls[i].at < cacheTTL) => RoundTripsBy({i, j}) = 1

\* The computation started by call i was rejected before call j was issued.
FailedBefore(i, j) ==
  /\ calls[i].kind = "new"
  /\ promises[calls[i].promise].state = "rejected"
  /\ promises[calls[i].promise].settledAfter < j

(***************************************************************************)
(* C3 (amended): with cacheTTL = T > 0, the first two calls for a text,    *)
(* issued less than T apart, cause exactly 1 round trip in total unless    *)
(* the first call's computation failed before the second was issued.       *)
(***************************************************************************)
C3_WithinTTL ==
  cacheTTL > 0 =>
    \A i, j \in 1..Len(calls) :
      (FirstTwo(i, j) /\ calls[j].at - calls[i].at < cacheTTL /\ ~FailedBefore(i, j))
        => RoundTripsBy({i, j}) = 1

\* The second call, issued after the first succeeded and within T, is a cache hit.
C3_Witness ==
  /\ cacheTTL > 0
  /\ \E i, j \in 1..Len(calls) :
       /\ FirstTwo(i, j)
       /\ calls[j].at > calls[i].at
       /\ calls[j].at - calls[i].at < cacheTTL
       /\ calls[j].kind = "hit"
       /\ calls[j].state = "fulfilled"

(***************************************************************************)
(* C4 (as stated): with cacheTTL = T > 0, once the first call for a text   *)
(* has caused 1 round trip, a later call for the text issued at least T    *)
(* after it (no other round trip for the text in between) starts a 2nd     *)
(* round trip.  It fails while the first round trip is still in flight:    *)
(* the later call joins it.                                                *)
(***************************************************************************)
C4_AfterTTLSecondRoundTrip ==
  cacheTTL > 0 =>
    \A i, j \in 1..Len(calls) :
      ( /\ i < j /\ calls[i].sql = calls[j].sql
        /\ calls[i].kind = "new" /\ calls[i].rtBefore = 0
        /\ calls[j].rtBefore = 1
        /\ calls[j].at - calls[i].at >= cacheTTL )
        => calls[j].kind = "new"

(***************************************************************************)
(* C4 (amended): ... a later call for the text issued at least T after it  *)
(* and after the first round trip has settled starts a 2nd round trip.     *)
(***************************************************************************)
C4_AfterTTL ==
  cacheTTL > 0 =>
    \A i, j \in 1..Len(calls) :
      ( /\ i < j /\ calls[i].sql = calls[j].sql
        /\ calls[i].kind = "new" /\ calls[i].rtBefore = 0
        /\ calls[j].rtBefore = 1
        /\ calls[j].at - calls[i].at >= cacheTTL
        /\ ~IssuedBeforeSettled(j, calls[i].promise) )
        => calls[j].kind = "new"

\* A stale entry (stored by the first call, T ago) is skipped: 2nd round trip.
C4_Witness ==
  /\ cacheTTL > 0
  /\ \E i, j \in 1..Len(calls) :
       /\ i < j /\ calls[i].sql = calls[j].sql
       /\ calls[i].kind = "new" /\ calls[i].rtBefore = 0
       /\ promises[calls[i].promise].state = "fulfilled"
       /\ calls[j].rtBefore = 1
       /\ calls[j].at - calls[i].at >= cacheTTL
       /\ calls[j].kind = "new"
       /\ RoundTrips(calls[j].sql) = 2

(***************************************************************************)
(* C5: with cacheTTL absent or 0 the result cache never receives an entry, *)
(* and every call issued after the previous calls for its text have        *)
(* settled starts a round trip: N sequential calls cause N round trips.    *)
(***************************************************************************)
C5_NoCaching ==
  (conn # "none" /\ cacheTTL = 0) =>
    /\ DOMAIN resultCache = {}
    /\ \A j \in 1..Len(calls) : Sequential(j) => calls[j].kind = "new"
    /\ \A s \in SqlTexts :
         (\A j \in CallsFor(s) : Sequential(j)) => RoundTrips(s) = Cardinality(CallsFor(s))

\* Three sequential successful calls for one text with caching off: 3 round trips.
C5_Witness ==
  /\ conn = "returned" /\ cacheTTL = 0
  /\ \E s \in SqlTexts :
       /\ Cardinality(CallsFor(s)) = MaxCalls
       /\ \A j \in CallsFor(s) : Sequential(j) /\ calls[j].state = "fulfilled"
       /\ RoundTrips(s) = MaxCalls

(***************************************************************************)
(* C2: a caller that joined the promise in flight observes the outcome of  *)
(* the caller that started it -- the same rows on success, the same error  *)
(* on failure (transport or conversion) -- and once the computation has    *)
(* settled every joiner does settle.                                       *)
(***************************************************************************)
C2_SameOutcome ==
  \A i, j \in 1..Len(calls) :
    (calls[i].kind = "new" /\ calls[j].kind = "join" /\ calls[j].promise = calls[i].promise)
      => /\ ~Pending(j) =>
              /\ promises[calls[j].promise].state = calls[j].state
              /\ promises[calls[j].promise].rows = calls[j].rows
              /\ promises[calls[j].promise].err = calls[j].err
         /\ (~Pending(i) /\ ~Pending(j)) =>
              /\ calls[i].state = calls[j].state
              /\ calls[i].rows = calls[j].rows
              /\ calls[i].err = calls[j].err

\* C2: the outcome is shared in every state, and a joiner of a settled promise
\* eventually settles.
C2_JoinersObserveSharedOutcome ==
  /\ []C2_SameOutcome
  /\ \A j \in 1..MaxCalls :
       (j <= Len(calls) /\ calls[j].kind = "join"
          /\ promises[calls[j].promise].state # "pending")
         ~> (j <= Len(calls) /\ ~Pending(j))

\* A starter and a joiner both failed with the error of a malformed list cell.
C2_Witness ==
  \E i, j \in 1..Len(calls) :
    /\ calls[i].kind = "new" /\ calls[j].kind = "join"
    /\ calls[j].promise = calls[i].promise
    /\ calls[i].state = "rejected" /\ calls[j].state = "rejected"
    /\ calls[j].err.name = "SyntaxError"

(***************************************************************************)
(* C6: a call that finds an entry for its text with cacheTTL > 0 and       *)
(* now - ts < cacheTTL is served that entry's table, issues no request and *)
(* leaves the result cache and the in-flight registry unchanged; an entry  *)
(* with now - ts >= cacheTTL is never served.                              *)
(***************************************************************************)
C6_Step ==
  /\ Len(calls') = Len(calls) + 1 =>
       LET c == calls'[Len(calls')]
       IN IF /\ c.sql \in DOMAIN resultCache
             /\ cacheTTL' > 0
             /\ now - resultCache[c.sql].ts < cacheTTL'
          THEN /\ c.kind = "hit"
               /\ c.data = resultCache[c.sql].data
               /\ requests' = requests
               /\ resultCache' = resultCache
               /\ inFlight' = inFlight
               /\ promises' = promises
          ELSE c.kind # "hit"
  /\ \A i \in 1..Len(calls) :
       (calls[i].kind = "hit" /\ calls[i].state = "pending" /\ calls'[i].state # "pending")
         => /\ calls'[i].state = "fulfilled"
            /\ calls'[i].rows = calls[i].data
            /\ calls[i].sql \in DOMAIN resultCache
            /\ UNCHANGED <<resultCache, inFlight, requests>>

\* C6: every step of every behaviour serves cache hits as C6_Step says.
C6_CacheHit == [][C6_Step]_vars

\* A call served from the cache has returned the cached table.
C6_Witness ==
  \E i \in 1..Len(calls) :
    /\ calls[i].kind = "hit"
    /\ calls[i].state = "fulfilled"
    /\ calls[i].rows = resultCache[calls[i].sql].data
    /\ Len(calls[i].rows) = 2
    /\ RoundTrips(calls[i].sql) = 1

(***************************************************************************)
(* C7: if every request is answered, the in-flight entry of a text is      *)
(* eventually removed, whatever the outcome of its computation; an entry   *)
(* never names a settled promise, no call joins a promise that had settled *)
(* before the call was issued, and every call eventually settles.          *)
(***************************************************************************)
C7_NoSettledEntry ==
  /\ \A s \in DOMAIN inFlight : promises[inFlight[s]].state = "pending"
  /\ \A p \in 1..Len(promises) :
       promises[p].state = "pending" =>
         (promises[p].sql \in DOMAIN inFlight /\ inFlight[promises[p].sql] = p)
  /\ \A j \in 1..Len(calls) :
       calls[j].kind = "join" => IssuedBeforeSettled(j, calls[j].promise)

\* C7: no entry outlives its computation, every entry is eventually removed and
\* every call eventually settles.
C7_EntryEventuallyRemoved ==
  /\ []C7_NoSettledEntry
  /\ \A s \in SqlTexts : (s \in DOMAIN inFlight) ~> (s \notin DOMAIN inFlight)
  /\ \A i \in 1..MaxCalls :
       (i <= Len(calls) /\ Pending(i)) ~> (i <= Len(calls) /\ ~Pending(i))

\* After a success, a transport failure and a conversion failure the registry is
\* empty, and the call issued after the transport failure started a new round trip.
C7_Witness ==
  /\ DOMAIN inFlight = {}
  /\ \E p, q, r \in 1..Len(promises) :
       /\ promises[p].state = "fulfilled"
       /\ promises[q].state = "rejected" /\ promises[q].err.name = "Error"
       /\ promises[r].state = "rejected" /\ promises[r].err.name = "SyntaxError"
       /\ promises[q].sql = promises[r].sql /\ q < r
  /\ \A i \in 1..Len(calls) : ~Pending(i) /\ calls[i].kind = "new"

(***************************************************************************)
(* C8: a non-success HTTP response makes the computation, and every call   *)
(* awaiting it, fail with an error whose message carries the status and    *)
(* the body text verbatim, and the computation has issued exactly one      *)
(* request: the failed request is not retried.                             *)
(***************************************************************************)
C8_HttpError ==
  \A r \in 1..Len(requests) :
    (requests[r].state = "done" /\ ~requests[r].res.net /\ ~ResOk(requests[r].res))
      => LET p == requests[r].promise
             e == promises[p].err
         IN /\ promises[p].state = "rejected"
            /\ e.name = "Error"
            /\ e.message = <<"DuckDB HTTP error ">> \o NumberToString(requests[r].res.status)
                             \o <<": ", requests[r].res.body.text>>
            /\ (requests[r].res.status = 500 /\ requests[r].res.body.text = "syntax error")
                 => e.message = <<"DuckDB HTTP error ", "5", "0", "0", ": ", "syntax error">>
            /\ Cardinality({q \in 1..Len(requests) : requests[q].promise = p}) = 1
            /\ \A i \in 1..Len(calls) :
                 (calls[i].promise = p /\ ~Pending(i))
                   => calls[i].state = "rejected" /\ calls[i].err = e

\* A call has failed with the error of a 500 "syntax error" response.
C8_Witness ==
  \E i \in 1..Len(calls), r \in 1..Len(requests) :
    /\ requests[r].promise = calls[i].promise
    /\ requests[r].state = "done"
    /\ requests[r].res.status = 500 /\ requests[r].res.body.text = "syntax error"
    /\ calls[i].state = "rejected"
    /\ calls[i].err.message = <<"DuckDB HTTP error ", "5", "0", "0", ": ", "syntax error">>
    /\ RoundTrips(calls[i].sql) = 1

(***************************************************************************)
(* C9: each(sql, cb) invokes cb once per row of the wire response, in wire *)
(* row order, and only once the table has been resolved (from the cache or *)
(* from the promise it started or joined); when the query fails cb is not  *)
(* invoked and each fails with the query's error.  cb records its argument *)
(* and returns.                                                            *)
(***************************************************************************)
C9_EachRowInOrder ==
  \A i \in 1..Len(calls) :
    /\ calls[i].cbs # <<>> => (calls[i].op = "each" /\ CanResume(i) /\ ~Pending(i))
    /\ (calls[i].op = "each" /\ calls[i].state = "fulfilled") =>
         \E r \in 1..Len(requests) :
           /\ requests[r].sql = calls[i].sql
           /\ requests[r].state = "done"
           /\ calls[i].kind # "hit" => requests[r].promise = calls[i].promise
           /\ LET w == requests[r].res.body.json
              IN /\ Len(calls[i].cbs) = Len(w.data)
                 /\ \A k \in 1..Len(w.data) : calls[i].cbs[k] = RowOf(w.data[k], w.meta)
    /\ (calls[i].op = "each" /\ calls[i].state = "rejected") =>
         /\ calls[i].cbs = <<>>
         /\ calls[i].err = promises[calls[i].promise].err

\* An each call that joined a computation has passed both rows to cb.
C9_Witness ==
  \E i \in 1..Len(calls) :
    /\ calls[i].op = "each" /\ calls[i].kind = "join"
    /\ calls[i].state = "fulfilled"
    /\ Len(calls[i].cbs) = 2
    /\ calls[i].cbs[1] # calls[i].cbs[2]

(***************************************************************************)
(* C10: connect issues exactly one probe (all('SELECT 1'), one request)    *)
(* and returns the handle if and only if the probe succeeds; if the probe  *)
(* fails connect fails with the probe's error, and no call is ever made on *)
(* the handle.                                                             *)
(***************************************************************************)
C10_Connect ==
  /\ conn = "none" => Len(calls) = 0 /\ Len(requests) = 0
  /\ conn = "connecting" => Len(calls) = 1 /\ Len(requests) = 1 /\ Pending(1)
  /\ conn # "none" =>
       /\ calls[1].sql = "SELECT 1" /\ calls[1].kind = "new"
       /\ Cardinality({r \in 1..Len(requests) : requests[r].promise = calls[1].promise}) = 1
  /\ conn = "returned" => calls[1].state = "fulfilled"
  /\ (conn # "none" /\ calls[1].state = "fulfilled") => conn = "returned"
  /\ conn = "failed" =>
       /\ calls[1].state = "rejected"
       /\ connectError = promises[calls[1].promise].err
       /\ connectError # NoError
       /\ Len(calls) = 1 /\ Len(requests) = 1
  /\ (conn # "none" /\ calls[1].state = "rejected") => conn = "failed"

\* connect failed with the error of a probe that was answered 500.
C10_Witness ==
  /\ conn = "failed"
  /\ connectError.name = "Error"
  /\ connectError.message = <<"DuckDB HTTP error ", "5", "0", "0", ": ", "syntax error">>

(***************************************************************************)
(* C11: exec(sql) and run(sql) behave as all(sql) with the return value    *)
(* dropped.  From every reachable state and for every SQL text, the step   *)
(* exec(sql) or run(sql) takes is a step all(sql) can take from the same   *)
(* state, up to the name of the operation: the same requests are issued,   *)
(* the result cache and the in-flight registry change in the same way and  *)
(* the call is served from the cache, joined or started alike.  Once       *)
(* resumed, the call has the outcome (success, or failure with the same    *)
(* error) that an all call served from the same cache entry or the same    *)
(* promise has, and no row is handed to any callback.                      *)
(***************************************************************************)
AsAll(cs) == [i \in 1..Len(cs) |-> [cs[i] EXCEPT !.op = "all"]]

C11_QueryStep ==
  \A op \in {"exec", "run"}, sql \in SqlTexts :
    Query(op, sql) =>
      \E rc \in {resultCache'}, inf \in {inFlight'}, ps \in {promises'},
         rq \in {requests'}, cs \in {AsAll(calls')} :
        ENABLED (/\ Query("all", sql)
                 /\ resultCache' = rc /\ inFlight' = inf /\ promises' = ps
                 /\ requests' = rq /\ AsAll(calls') = cs)

C11_Outcome ==
  \A i \in 1..Len(calls) :
    (calls[i].op \in {"exec", "run"} /\ ~Pending(i)) =>
      /\ calls[i].cbs = <<>>
      /\ \A j \in 1..Len(calls) :
           (/\ calls[j].op = "all" /\ ~Pending(j)
            /\ calls[j].kind = "hit" <=> calls[i].kind = "hit"
            /\ calls[j].promise = calls[i].promise
            /\ calls[j].data = calls[i].data) =>
             /\ calls[j].state = calls[i].state
             /\ calls[j].err = calls[i].err
             /\ calls[j].rows = calls[i].rows

C11_ExecRunAsAll == [][C11_QueryStep /\ C11_Outcome']_vars

\* A run call joined the computation an all call had started on the handle, the
\* computation failed, and both callers have resumed.
C11_Witness ==
  \E i, j \in 1..Len(calls) :
    /\ calls[i].op = "all" /\ calls[i].kind = "new" /\ i > 1
    /\ calls[j].op = "run" /\ calls[j].kind = "join"
    /\ calls[j].promise = calls[i].promise
    /\ calls[j].state = "rejected" /\ calls[i].state = "rejected"

(***************************************************************************)
(* C12: whatever type the column declares (a known tag in any letter case  *)
(* or an unknown one), a cell that is null or absent on the wire decodes   *)
(* to null: the conversion returns, and returns null, because the null     *)
(* check precedes the dispatch on the type.                                *)
(***************************************************************************)
C12_NullDecodesToNull ==
  (decoding.stage = "typed" /\ decoding.cell \in {Null, Undefined}) =>
    /\ decoding.out.ok
    /\ decoding.out = Return(Null)

\* An absent cell of a TIMESTAMP column (whose rule calls value.replace) decoded to null.
C12_Witness ==
  /\ decoding.stage = "typed"
  /\ decoding.cell = Undefined
  /\ decoding.type = UpperCased(TagTimestamp)
  /\ decoding.out = Return(Null)

(***************************************************************************)
(* C13 (as stated): decoding is total but for malformed JSON text.  For    *)
(* every type tag and every non-null raw cell, the conversion fails when,  *)
(* and only when, the tag is list, array, struct or json and the cell      *)
(* holds malformed JSON text; under every other tag it returns.            *)
(* It fails: BigInt throws on a text that is no integer literal,           *)
(* value.replace throws on a timestamp/datetime cell that is no string,    *)
(* Buffer.from throws on a blob cell that is a number, a boolean or an     *)
(* object.                                                                 *)
(***************************************************************************)
MalformedJSONText(value) == value.k = "string" /\ ~JSONparse(value.v).ok

C13_FailsOnlyOnMalformedJSON ==
  (decoding.stage = "typed" /\ decoding.cell \notin {Null, Undefined}) =>
    (~decoding.out.ok <=>
       (toLowerCase(decoding.type) \in JsonTags /\ MalformedJSONText(decoding.value)))

(***************************************************************************)
(* C14 (as stated): a non-null cell tagged bigint, int64 or hugeint whose  *)
(* text on the wire is an integer literal (a JSON string holding it, or a  *)
(* JSON number) decodes to the arbitrary-precision integer that the text   *)
(* denotes, digit for digit.                                               *)
(* It fails for a JSON number beyond 2^53: res.json() has rounded it to a  *)
(* double before BigInt sees it.                                           *)
(***************************************************************************)
IsIntegerText(s) ==
  LET d == IF s # <<>> /\ s[1] = "-" THEN Tail(s) ELSE s
  IN d # <<>> /\ SkipDigits(d, 1) = Len(d) + 1

\* The integer that the text of the cell denotes.
DenotedInteger(cell) ==
  IF cell.k = "literal" THEN BigIntOf(cell.neg, cell.digits)
  ELSE BigIntOf(cell.v[1] = "-", IF cell.v[1] = "-" THEN Tail(cell.v) ELSE cell.v)

C14_ExactBigInt ==
  (/\ decoding.stage = "typed"
   /\ toLowerCase(decoding.type) \in BigintTags
   /\ \/ decoding.cell.k = "literal"
      \/ decoding.cell.k = "string" /\ IsIntegerText(decoding.cell.v)) =>
    decoding.out = Return(DenotedInteger(decoding.cell))

(***************************************************************************)
(* C15: in every reachable state of a handle, each SQL text has at most    *)
(* one pending computation and at most one request awaiting its response,  *)
(* and the in-flight registry holds an entry for a text exactly while a    *)
(* computation started for it has not settled; the entry is that           *)
(* computation's promise.                                                  *)
(***************************************************************************)
PendingComputations(sql) ==
  {p \in 1..Len(promises) : promises[p].sql = sql /\ promises[p].state = "pending"}

Outstanding(sql) ==
  {r \in 1..Len(requests) : requests[r].sql = sql /\ requests[r].state = "sent"}

C15_OnePendingPerText ==
  \A sql \in SqlTexts :
    /\ Cardinality(PendingComputations(sql)) <= 1
    /\ Cardinality(Outstanding(sql)) <= 1
    /\ \A r \in Outstanding(sql) : requests[r].promise \in PendingComputations(sql)
    /\ sql \in DOMAIN inFlight <=> PendingComputations(sql) # {}
    /\ sql \in DOMAIN inFlight => inFlight[sql] \in PendingComputations(sql)

\* Both texts have a computation pending at once, after the probe's has settled and
\* left the registry.
C15_Witness ==
  /\ DOMAIN inFlight = SqlTexts
  /\ inFlight["SELECT 1"] # inFlight["select 1"]
  /\ \E p \in 1..Len(promises) : promises[p].sql = "SELECT 1" /\ promises[p].state # "pending"

(***************************************************************************)
(* C16 (as stated): when a new computation succeeds with TTL enabled, the  *)
(* cache entry it stores carries the time at which it is stored, that is   *)
(* the time at which the round trip and the decoding have completed.       *)
(* It fails: the entry carries the `now` that _getQuery read when the call *)
(* was issued, before the round trip; time that passes during the round    *)
(* trip is taken off the entry's freshness.                                *)
(***************************************************************************)
C16_Step ==
  \A p \in 1..Len(promises) :
    (/\ promises[p].state = "pending"
     /\ promises'[p].state = "fulfilled"
     /\ cacheTTL > 0) =>
      /\ promises[p].sql \in DOMAIN resultCache'
      /\ resultCache'[promises[p].sql].ts = now

C16_StoredAtCurrentTime == [][C16_Step]_vars

(***************************************************************************)
(* C17: when a computation fails (the transport fails or the decoding      *)
(* throws) the result cache is left as it was: no entry is created for the *)
(* text, an existing stale entry is neither refreshed nor removed.  The    *)
(* failure is not cached: the next call for the text issued after the      *)
(* failure has settled starts a new computation with a round trip of its   *)
(* own.                                                                    *)
(***************************************************************************)
C17_FailureStep ==
  \A p \in 1..Len(promises) :
    (promises[p].state = "pending" /\ promises'[p].state = "rejected") =>
      resultCache' = resultCache

\* The first call for the text of promise p issued after p settled.
NextCallAfter(p, j) ==
  /\ j \in CallsFor(promises[p].sql)
  /\ j > promises[p].settledAfter
  /\ \A k \in CallsFor(promises[p].sql) : k > promises[p].settledAfter => k >= j

C17_FailureNotCached ==
  \A p \in 1..Len(promises), j \in 1..Len(calls) :
    (promises[p].state = "rejected" /\ NextCallAfter(p, j)) =>
      /\ calls[j].kind = "new"
      /\ calls[j].promise # p
      /\ \E r \in 1..Len(requests) : requests[r].promise = calls[j].promise

C17_FailureLeavesCache == [][C17_FailureStep /\ C17_FailureNotCached']_vars

\* A computation started on a stale entry failed; the entry is still there with its
\* old timestamp, and the next call for the text started a new computation.
C17_Witness ==
  \E p \in 1..Len(promises), j \in 1..Len(calls) :
    /\ promises[p].state = "rejected"
    /\ promises[p].sql \in DOMAIN resultCache
    /\ promises[p].now - resultCache[promises[p].sql].ts >= cacheTTL
    /\ NextCallAfter(p, j)
    /\ calls[j].kind = "new"

(***************************************************************************)
(* C19: cache entries are never evicted.  Across every step the set of SQL *)
(* texts that have a cache entry does not shrink: a call that finds a      *)
(* stale entry skips it and leaves it in place, a failure leaves it in     *)
(* place; an entry is only added or overwritten, by a computation for the  *)
(* same text that succeeds.  Per text the stored timestamp never           *)
(* decreases (Date.now() is a non-decreasing clock).                       *)
(***************************************************************************)
C19_Step ==
  /\ DOMAIN resultCache \subseteq DOMAIN resultCache'
  /\ \A sql \in DOMAIN resultCache : resultCache'[sql].ts >= resultCache[sql].ts
  /\ \A sql \in DOMAIN resultCache' :
       (sql \notin DOMAIN resultCache \/ resultCache'[sql] # resultCache[sql]) =>
         \E p \in 1..Len(promises) :
           /\ promises[p].sql = sql
           /\ promises[p].state = "pending"
           /\ promises'[p].state = "fulfilled"

C19_NeverEvicted == [][C19_Step]_vars

\* A stale entry was skipped by a call, kept while that call's computation ran, and
\* then overwritten by it with a later timestamp.
C19_Witness ==
  \E p, q \in 1..Len(promises) :
    /\ promises[p].sql = promises[q].sql
    /\ promises[p].state = "fulfilled" /\ promises[q].state = "fulfilled"
    /\ cacheTTL > 0
    /\ promises[q].now - promises[p].now >= cacheTTL
    /\ promises[p].sql \in DOMAIN resultCache
    /\ resultCache[promises[p].sql].ts = promises[q].now

(***************************************************************************)
(* C18: the cache and the in-flight registry are keyed by the exact SQL    *)
(* text; "SELECT 1" and "select 1" are different keys.  A call for a text  *)
(* is served only from an entry that a computation for that very text      *)
(* stored, joins only a promise started for that text, and otherwise       *)
(* issues its own request at once, whatever is pending for the other text. *)
(* It awaits the computation of its own text only, so it settles as soon   *)
(* as that one has, and fails only with that computation's error.          *)
(***************************************************************************)
C18_KeyedByExactText ==
  \A i \in 1..Len(calls) :
    /\ calls[i].kind = "hit" =>
         \E p \in 1..Len(promises) :
           /\ promises[p].sql = calls[i].sql
           /\ promises[p].state = "fulfilled"
           /\ promises[p].settledAfter < i
           /\ promises[p].rows = calls[i].data
    /\ calls[i].kind \in {"join", "new"} =>
         /\ promises[calls[i].promise].sql = calls[i].sql
         /\ \E r \in 1..Len(requests) :
              requests[r].promise = calls[i].promise /\ requests[r].sql = calls[i].sql
         /\ Pending(i) \/ promises[calls[i].promise].state # "pending"
         /\ promises[calls[i].promise].state # "pending" => CanResume(i)
    /\ calls[i].state = "rejected" =>
         /\ calls[i].kind # "hit"
         /\ calls[i].err = promises[calls[i].promise].err

\* While "SELECT 1" has a fresh cache entry, a call for "select 1" started its own
\* computation; that one failed and a later call for "SELECT 1" was still served
\* from the cache.
C18_Witness ==
  \E i, j \in 1..Len(calls) :
    /\ i < j
    /\ calls[i].sql = "select 1" /\ calls[i].kind = "new" /\ calls[i].state = "rejected"
    /\ cacheValid("SELECT 1", calls[i].at)
    /\ calls[j].sql = "SELECT 1" /\ calls[j].kind = "hit" /\ calls[j].state = "fulfilled"

(***************************************************************************)
(* C20: with cacheTTL = T > 0 and a non-decreasing clock, every table      *)
(* served from the cache is the table of the latest successful computation *)
(* for the text, whose round trip was issued less than T before the        *)
(* serving call was made; and in no reachable state does a text have both  *)
(* a fresh cache entry and a pending computation.                          *)
(***************************************************************************)
\* The computation whose table the cache held for the text of call i when call i
\* was issued: the latest one for the text that had succeeded by then.
Producers(i) ==
  {p \in 1..Len(promises) :
     /\ promises[p].sql = calls[i].sql
     /\ promises[p].state = "fulfilled"
     /\ promises[p].settledAfter < i}

Producer(i) == CHOOSE p \in Producers(i) : \A q \in Producers(i) : q <= p

C20_StalenessBound ==
  /\ \A i \in 1..Len(calls) :
       calls[i].kind = "hit" =>
         /\ cacheTTL > 0
         /\ Producers(i) # {}
         /\ calls[i].data = promises[Producer(i)].rows
         /\ \E r \in 1..Len(requests) : requests[r].promise = Producer(i)
         /\ calls[StartedBy(Producer(i))].at <= calls[i].at
         /\ calls[i].at - calls[StartedBy(Producer(i))].at < cacheTTL
  /\ \A sql \in SqlTexts : ~(cacheValid(sql, now) /\ PendingComputations(sql) # {})

\* A call was served from the cache a positive time after the round trip that
\* produced the table was issued, and the other text has a computation pending next
\* to a fresh entry of this one.
C20_Witness ==
  \E i \in 1..Len(calls) :
    /\ calls[i].kind = "hit"
    /\ calls[i].at - calls[StartedBy(Producer(i))].at = cacheTTL - 1
    /\ cacheValid(calls[i].sql, now)
    /\ \E sql \in SqlTexts : sql # calls[i].sql /\ PendingComputations(sql) # {}

====
